---- MODULE Spec2Model ----
(***************************************************************************)
(* Verb-anchored phrase matcher of the management-guidance notebook:       *)
(* get_verb, get_subjMap, find_sentence and the speaker lookup, over the   *)
(* token attributes the dependency parser exposes (text, pos_, dep_, head, *)
(* sentence membership).  A token is identified by its index in the        *)
(* document, as the parser's token equality is (document, index).          *)
(***************************************************************************)
EXTENDS Integers, Sequences, FiniteSets, TLC

\* ---------------------------------------------------------------- bounds
\* Largest number of tokens of a parsed document.
MaxTokens == 3

\* Largest number of tokens of the short texts run next to the examples.
ShortTokens == 2

\* Largest numbers of industries, of firms per industry and of quarters
\* typed into set obs and expand.
MaxInd == 2

MaxFirms == 2

MaxQuarters == 2

\* Largest number of observations of a panel.
MaxPanelObs == 8

\* Largest number of observations of a panel the cells after the
\* exogenous example are run on.
MaxObs == 4

\* ------------------------------------------------------------- constants
earnings_words == <<"earnings", "profitability", "dollars per share">>

forward_words == <<"forecasted", "estimated", "will", "expected">>

\* Surface texts the parser hands out in the matcher's documents: a topic
\* word, a forward-looking word and a word of neither list.
Texts == {"earnings", "will", "XYZ"}

\* Part-of-speech tags and dependency labels the code distinguishes.
PosTags == {"VERB", "NOUN"}

NonRootDeps == {"nsubj", "aux", "dobj"}

\* Value of a token-valued variable that holds no token.
NoToken == 0

\* ------------------------------------------------------------- documents
Tokens(d) == 1..d.n

\* Sentence number of token i when the sentences start at 1 and at brk.
SentOf(brk, i) == 1 + Cardinality({b \in brk : b <= i})

RECURSIVE Up(_, _, _)
\* The token k head links above token i.
Up(hd, i, k) == IF k = 0 THEN i ELSE Up(hd, hd[i], k - 1)

\* Every sentence is one tree: heads stay inside the sentence, exactly one
\* token of a sentence is its own head (the root) and every head chain
\* reaches it.
WellFormed(n, brk, hd) ==
    /\ \A i \in 1..n : SentOf(brk, hd[i]) = SentOf(brk, i)
    /\ \A i \in 1..n : hd[Up(hd, i, n)] = Up(hd, i, n)
    /\ \A i, j \in 1..n :
          (hd[i] = i /\ hd[j] = j /\ SentOf(brk, i) = SentOf(brk, j)) => i = j

\* The dependency labels of a parse: ROOT on the roots and only there.
DepLabels(n, hd) ==
    {dp \in [1..n -> NonRootDeps \cup {"ROOT"}] :
        \A i \in 1..n : (dp[i] = "ROOT") <=> (hd[i] = i)}

\* d is the parser's output for some text over the surface texts T: per
\* token its text, pos_, dep_, head and the sentence (doc.sents) it is in.
ParsedDocOfSize(d, T, m) ==
    \E n \in 1..m : \E brk \in SUBSET (2..n) :
      \E hd \in [1..n -> 1..n] :
        /\ WellFormed(n, brk, hd)
        /\ \E tx \in [1..n -> T], ps \in [1..n -> PosTags],
              dp \in DepLabels(n, hd) :
              d = [ n    |-> n,
                    text |-> tx,
                    pos  |-> ps,
                    dep  |-> dp,
                    head |-> hd,
                    sent |-> [i \in 1..n |-> SentOf(brk, i)] ]

\* A parse of at most MaxTokens tokens.
IsParsedDoc(d, T) == ParsedDocOfSize(d, T, MaxTokens)

NumSents(d) == IF d.n = 0 THEN 0 ELSE d.sent[d.n]

Root(d, w) == CHOOSE r \in Tokens(d) : d.head[r] = r /\ d.sent[r] = d.sent[w]

\* ------------------------------------------------------ example documents
\* A parse written as one row <<text, pos_, dep_, head, sentence>> per token.
MkDoc(rows) ==
    [ n    |-> Len(rows),
      text |-> [i \in 1..Len(rows) |-> rows[i][1]],
      pos  |-> [i \in 1..Len(rows) |-> rows[i][2]],
      dep  |-> [i \in 1..Len(rows) |-> rows[i][3]],
      head |-> [i \in 1..Len(rows) |-> rows[i][4]],
      sent |-> [i \in 1..Len(rows) |-> rows[i][5]] ]

\* Value of a document-valued variable before the call that binds it.
NoDoc == MkDoc(<<>>)

\* doc = nlp(sent), as the notebook prints it:
\* "XYZ announced that earnings will increase this year."
SentDoc ==
    MkDoc(<< <<"XYZ",       "PROPN", "nsubj",    2, 1>>,
             <<"announced", "VERB",  "ROOT",     2, 1>>,
             <<"that",      "ADP",   "mark",     6, 1>>,
             <<"earnings",  "NOUN",  "nsubj",    6, 1>>,
             <<"will",      "VERB",  "aux",      6, 1>>,
             <<"increase",  "VERB",  "ccomp",    2, 1>>,
             <<"this",      "DET",   "det",      8, 1>>,
             <<"year",      "NOUN",  "npadvmod", 6, 1>>,
             <<".",         "PUNCT", "punct",    2, 1>> >>)

\* Tokens the clauses of bad_sent may attach to: the clause of "fallen"
\* to "remained" or "stated", the clause of "manage" to "in", "confident"
\* or "remained".
FallenHeads == {13, 2}

ManageHeads == {15, 14, 13}

\* A parse of bad_sent with "earnings" the subject of "fallen" and "will"
\* an auxiliary of "manage":
\* "XYZ stated that although earnings had fallen last year, the board
\*  remained confident in how the new CEO will manage the company."
BadSentParse(hf, hm) ==
    MkDoc(<< <<"XYZ",       "PROPN", "nsubj",    2,  1>>,
             <<"stated",    "VERB",  "ROOT",     2,  1>>,
             <<"that",      "ADP",   "mark",     13, 1>>,
             <<"although",  "ADP",   "mark",     7,  1>>,
             <<"earnings",  "NOUN",  "nsubj",    7,  1>>,
             <<"had",       "VERB",  "aux",      7,  1>>,
             <<"fallen",    "VERB",  "advcl",    hf, 1>>,
             <<"last",      "ADJ",   "amod",     9,  1>>,
             <<"year",      "NOUN",  "npadvmod", 7,  1>>,
             <<",",         "PUNCT", "punct",    13, 1>>,
             <<"the",       "DET",   "det",      12, 1>>,
             <<"board",     "NOUN",  "nsubj",    13, 1>>,
             <<"remained",  "VERB",  "ccomp",    2,  1>>,
             <<"confident", "ADJ",   "acomp",    13, 1>>,
             <<"in",        "ADP",   "prep",     14, 1>>,
             <<"how",       "ADV",   "advmod",   21, 1>>,
             <<"the",       "DET",   "det",      19, 1>>,
             <<"new",       "ADJ",   "amod",     19, 1>>,
             <<"CEO",       "NOUN",  "nsubj",    21, 1>>,
             <<"will",      "VERB",  "aux",      21, 1>>,
             <<"manage",    "VERB",  "pcomp",    hm, 1>>,
             <<"the",       "DET",   "det",      23, 1>>,
             <<"company",   "NOUN",  "dobj",     21, 1>>,
             <<".",         "PUNCT", "punct",    2,  1>> >>)

BadSentDocs == {BadSentParse(hf, hm) : hf \in FallenHeads, hm \in ManageHeads}

\* docp = nlp(para): four sentences; the subjects are the ones the notebook
\* prints for get_subjMap(docp).
ParaDoc ==
    MkDoc(<< <<"XYZ",        "PROPN", "nsubj",    2,  1>>,
             <<"announced",  "VERB",  "ROOT",     2,  1>>,
             <<"strong",     "ADJ",   "amod",     4,  1>>,
             <<"results",    "NOUN",  "dobj",     2,  1>>,
             <<"for",        "ADP",   "prep",     4,  1>>,
             <<"the",        "DET",   "det",      7,  1>>,
             <<"quarter",    "NOUN",  "pobj",     5,  1>>,
             <<".",          "PUNCT", "punct",    2,  1>>,
             <<"Alice",      "PROPN", "compound", 10, 2>>,
             <<"Smith",      "PROPN", "nsubj",    16, 2>>,
             <<",",          "PUNCT", "punct",    10, 2>>,
             <<"CEO",        "NOUN",  "appos",    10, 2>>,
             <<"of",         "ADP",   "prep",     12, 2>>,
             <<"XYZ",        "PROPN", "pobj",     13, 2>>,
             <<",",          "PUNCT", "punct",    10, 2>>,
             <<"remains",    "VERB",  "ROOT",     16, 2>>,
             <<"optimistic", "ADJ",   "acomp",    16, 2>>,
             <<".",          "PUNCT", "punct",    16, 2>>,
             <<"Bob",        "PROPN", "compound", 20, 3>>,
             <<"Johnson",    "PROPN", "nsubj",    26, 3>>,
             <<",",          "PUNCT", "punct",    20, 3>>,
             <<"an",         "DET",   "det",      23, 3>>,
             <<"analyst",    "NOUN",  "appos",    20, 3>>,
             <<"covering",   "VERB",  "acl",      23, 3>>,
             <<"XYZ",        "PROPN", "dobj",     24, 3>>,
             <<"pressured",  "VERB",  "ROOT",     26, 3>>,
             <<"Smith",      "PROPN", "dobj",     26, 3>>,
             <<"for",        "ADP",   "prep",     26, 3>>,
             <<"details",    "NOUN",  "pobj",     28, 3>>,
             <<"on",         "ADP",   "prep",     29, 3>>,
             <<"the",        "DET",   "det",      34, 3>>,
             <<"latest",     "ADJ",   "amod",     34, 3>>,
             <<"earnings",   "NOUN",  "compound", 34, 3>>,
             <<"call",       "NOUN",  "pobj",     30, 3>>,
             <<".",          "PUNCT", "punct",    26, 3>>,
             <<"Smith",      "PROPN", "nsubj",    37, 4>>,
             <<"stated",     "VERB",  "ROOT",     37, 4>>,
             <<"that",       "ADP",   "mark",     40, 4>>,
             <<"she",        "PRON",  "nsubj",    40, 4>>,
             <<"expected",   "VERB",  "ccomp",    37, 4>>,
             <<"earnings",   "NOUN",  "compound", 42, 4>>,
             <<"growth",     "NOUN",  "dobj",     40, 4>>,
             <<"over",       "ADP",   "prep",     40, 4>>,
             <<"the",        "DET",   "det",      46, 4>>,
             <<"next",       "ADJ",   "amod",     46, 4>>,
             <<"year",       "NOUN",  "pobj",     43, 4>>,
             <<".",          "PUNCT", "punct",    37, 4>> >>)

\* The texts the notebook parses.
ExampleDocs == {SentDoc, ParaDoc} \cup BadSentDocs

\* ------------------------------------------------------------- get_verb
\* The exit test without the exclusion of auxiliaries.
IsMainVerb_AnyVerb(d, h) == d.pos[h] = "VERB"

\* The loop's exit test.
IsMainVerb(d, h) == d.pos[h] = "VERB" /\ d.dep[h] # "aux"

RECURSIVE Walk(_, _, _)
\* The token the loop of get_verb stops at when it is entered with h, or
\* NoToken when the loop never breaks: a loop that has not met a main verb
\* after fuel = doc.n head links is revisiting tokens and never will.
Walk(d, h, fuel) ==
    IF IsMainVerb(d, h) THEN h
    ELSE IF fuel = 0 THEN NoToken
    ELSE Walk(d, d.head[h], fuel - 1)

\* get_verb(w) as a value, for the callers that use its result.
GetVerb(d, w) == Walk(d, w, d.n)

\* ------------------------------------------------------- lexicon matcher
\* a is a substring of b.
IsSubstring(a, b) ==
    \E i \in 1..(Len(b) - Len(a) + 1) : SubSeq(b, i, i + Len(a) - 1) = a

\* x matched against the entries as a substring, as w in sent does.
InList_Substring(x, words) == \E k \in 1..Len(words) : IsSubstring(x, words[k])

\* x in words, for a list of strings.
InList(x, words) == \E k \in 1..Len(words) : words[k] = x

RECURSIVE LexMatch(_, _, _)
\* [w for w in toks if w.text in words]
LexMatch(d, toks, words) ==
    IF toks = <<>> THEN <<>>
    ELSE IF InList(d.text[Head(toks)], words)
         THEN <<Head(toks)>> \o LexMatch(d, Tail(toks), words)
         ELSE LexMatch(d, Tail(toks), words)

\* The tokens of the document, in order: for w in doc
AllTokens(d) == [i \in 1..d.n |-> i]

\* The tokens of sentence s, in order.
SentTokens(d, s) ==
    SelectSeq([i \in 1..d.n |-> i], LAMBDA i : d.sent[i] = s)

RECURSIVE SentsFrom(_, _)
\* for s in doc.sents: for w in s, from sentence s on.
SentsFrom(d, s) ==
    IF s > NumSents(d) THEN <<>> ELSE SentTokens(d, s) \o SentsFrom(d, s + 1)

DocOrder(d) == SentsFrom(d, 1)

\* ----------------------------------------------------------------- dicts
\* A dict is the sequence of its items [key, val] in insertion order.
DictKeys(m) == {m[i].key : i \in DOMAIN m}

DictHas(m, k) == \E i \in DOMAIN m : m[i].key = k

DictGet(m, k) == m[CHOOSE i \in DOMAIN m : m[i].key = k].val

\* An update that keeps the value of a key already present (setdefault).
DictUpdate_FirstWins(m, k, v) ==
    IF DictHas(m, k) THEN m ELSE Append(m, [key |-> k, val |-> v])

\* An update that adds an item whether or not the key is present.
DictUpdate_Append(m, k, v) == Append(m, [key |-> k, val |-> v])

\* m.update({k: v})
DictUpdate(m, k, v) ==
    IF DictHas(m, k)
    THEN [i \in DOMAIN m |-> IF m[i].key = k THEN [key |-> k, val |-> v] ELSE m[i]]
    ELSE Append(m, [key |-> k, val |-> v])

\* ---------------------------------------------------------- find_sentence
\* AddInstance without the test ev == fv.
AddInstance_NoVerbTest(d, items, s, e, f) ==
    LET inst == <<d.text[e], d.text[f], GetVerb(d, e)>>
    IN  IF ~DictHas(items, s)
        THEN DictUpdate(items, s, <<inst>>)
        ELSE [i \in DOMAIN items |->
                IF items[i].key = s
                THEN [key |-> s, val |-> Append(items[i].val, inst)]
                ELSE items[i]]

\* AddInstance comparing the verbs by their text.
AddInstance_TextEq(d, items, s, e, f) ==
    LET ev == GetVerb(d, e)
        fv == GetVerb(d, f)
        inst == <<d.text[e], d.text[f], ev>>
    IN  IF d.text[ev] = d.text[fv]
        THEN IF ~DictHas(items, s)
             THEN DictUpdate(items, s, <<inst>>)
             ELSE [i \in DOMAIN items |->
                     IF items[i].key = s
                     THEN [key |-> s, val |-> Append(items[i].val, inst)]
                     ELSE items[i]]
        ELSE items

\* A pass that files an empty list under s before it tests the pair.
AddInstance_EmptyEntry(d, items, s, e, f) ==
    LET ev == GetVerb(d, e)
        fv == GetVerb(d, f)
        inst == <<d.text[e], d.text[f], ev>>
        its == IF DictHas(items, s) THEN items ELSE DictUpdate(items, s, <<>>)
    IN  IF ev = fv
        THEN [i \in DOMAIN its |->
                IF its[i].key = s
                THEN [key |-> s, val |-> Append(its[i].val, inst)]
                ELSE its[i]]
        ELSE its

\* One pass of the body of the inner loop for the pair (e, f) of sentence s.
AddInstance(d, items, s, e, f) ==
    LET ev == GetVerb(d, e)
        fv == GetVerb(d, f)
        inst == <<d.text[e], d.text[f], ev>>
    IN  IF ev = fv
        THEN IF ~DictHas(items, s)
             THEN DictUpdate(items, s, <<inst>>)
             ELSE [i \in DOMAIN items |->
                     IF items[i].key = s
                     THEN [key |-> s, val |-> Append(items[i].val, inst)]
                     ELSE items[i]]
        ELSE items

RECURSIVE InnerLoop(_, _, _, _, _)
\* for f, fv in fp_verbs.items(): ...
InnerLoop(d, items, s, e, fs) ==
    IF fs = <<>> THEN items
    ELSE InnerLoop(d, AddInstance(d, items, s, e, Head(fs)), s, e, Tail(fs))

RECURSIVE OuterLoop(_, _, _, _, _)
\* for e, ev in ep_verbs.items(): ...
OuterLoop(d, items, s, es, fs) ==
    IF es = <<>> THEN items
    ELSE OuterLoop(d, InnerLoop(d, items, s, Head(es), fs), s, Tail(es), fs)

ep_words(d, s) == LexMatch(d, SentTokens(d, s), earnings_words)

fp_words(d, s) == LexMatch(d, SentTokens(d, s), forward_words)

\* Some call of get_verb made for sentence s never returns.
VerbsDiverge(d, s) ==
    \/ \E k \in DOMAIN ep_words(d, s) : GetVerb(d, ep_words(d, s)[k]) = NoToken
    \/ \E k \in DOMAIN fp_words(d, s) : GetVerb(d, fp_words(d, s)[k]) = NoToken

RECURSIVE Flatten(_)
\* The instances in the order the nested loops over .values() visit them.
Flatten(items) ==
    IF items = <<>> THEN <<>> ELSE Head(items).val \o Flatten(Tail(items))

VARIABLES doc, pc, gv_w, gv_h, gv_ret, defined, subj_map, sm_i, sm_doc,
          return_items, fs_s, fs_doc, lk_i, printed, e_words, f_words

\* The single-sentence walkthrough: the dict e_verbs, the position of the
\* loop over its items and the pairs (e, subj) the loop has printed.
VARIABLES e_verbs, wk_i, wk_printed

\* The Stata session of the spillover notebook: the data set in memory
\* (its observations in their current order, and the names of its
\* variables), the command the script is at, the panel dimensions typed
\* into set obs and expand, the local macros, the estimation results e()
\* and the level the foreach loop is at.
VARIABLES data, cols, spc, dims, macros, e_res, loop_g

stVars == <<data, cols, spc, dims, macros, e_res, loop_g>>

vars == <<doc, pc, gv_w, gv_h, gv_ret, defined, subj_map, sm_i, sm_doc,
          return_items, fs_s, fs_doc, lk_i, printed, e_words, f_words,
          e_verbs, wk_i, wk_printed,
          data, cols, spc, dims, macros, e_res, loop_g>>

\* No Stata session is running.
NoSession ==
    /\ data = <<>>
    /\ cols = {}
    /\ spc = "off"
    /\ dims = [nInd |-> 0, nFirms |-> 0, nQuarters |-> 0]
    /\ macros = <<>>
    /\ e_res = <<>>
    /\ loop_g = 0

lexVars == <<e_words, f_words>>

wkVars == <<e_verbs, wk_i, wk_printed>>

\* The walkthrough cells have not run.
NoWalk ==
    /\ e_verbs = <<>>
    /\ wk_i = 0
    /\ wk_printed = <<>>

gvVars == <<gv_w, gv_h, gv_ret>>

\* sm_doc and fs_doc are the parameter doc of the latest call of get_subjMap
\* and of find_sentence.
smVars == <<subj_map, sm_i, sm_doc>>

fsVars == <<return_items, fs_s, fs_doc>>

lkVars == <<lk_i, printed>>

Init ==
    /\ IsParsedDoc(doc, Texts)
    /\ pc = "idle"
    /\ gv_w = NoToken
    /\ gv_h = NoToken
    /\ gv_ret = NoToken
    /\ defined = {}
    /\ subj_map = <<>>
    /\ sm_i = 0
    /\ sm_doc = NoDoc
    /\ return_items = <<>>
    /\ fs_s = 0
    /\ fs_doc = NoDoc
    /\ lk_i = 0
    /\ printed = <<>>
    /\ e_words = <<>>
    /\ f_words = <<>>
    /\ NoWalk
    /\ NoSession

\* Surface texts for the lexicon matcher: list entries, and texts that
\* differ from an entry in case, are part of one or contain one.
LexTexts ==
    {"earnings", "Earnings", "earning", "will", "Will", "willing",
     "dollars", "XYZ"}

\* A parse of up to MaxTokens tokens over LexTexts, every token attached
\* to the first.
InitLex ==
    /\ \E n \in 1..MaxTokens : \E tx \in [1..n -> LexTexts] :
          doc = [ n    |-> n,
                  text |-> tx,
                  pos  |-> [i \in 1..n |-> "NOUN"],
                  dep  |-> [i \in 1..n |-> IF i = 1 THEN "ROOT" ELSE "dobj"],
                  head |-> [i \in 1..n |-> 1],
                  sent |-> [i \in 1..n |-> 1] ]
    /\ pc = "idle"
    /\ gv_w = NoToken
    /\ gv_h = NoToken
    /\ gv_ret = NoToken
    /\ defined = {}
    /\ subj_map = <<>>
    /\ sm_i = 0
    /\ sm_doc = NoDoc
    /\ return_items = <<>>
    /\ fs_s = 0
    /\ fs_doc = NoDoc
    /\ lk_i = 0
    /\ printed = <<>>
    /\ e_words = <<>>
    /\ f_words = <<>>
    /\ NoWalk
    /\ NoSession

\* e_words = [w for w in doc if w.text in earnings_words]
MatchEarningsWords ==
    /\ pc = "idle"
    /\ e_words' = LexMatch(doc, AllTokens(doc), earnings_words)
    /\ defined' = defined \cup {"e_words"}
    /\ UNCHANGED <<stVars, wkVars, doc, pc, gvVars, smVars, fsVars, lkVars, f_words>>

\* f_words = [w for w in doc if w.text in forward_words]
MatchForwardWords ==
    /\ pc = "idle"
    /\ f_words' = LexMatch(doc, AllTokens(doc), forward_words)
    /\ defined' = defined \cup {"f_words"}
    /\ UNCHANGED <<stVars, wkVars, doc, pc, gvVars, smVars, fsVars, lkVars, e_words>>

\* A call that starts the walk at the head of w.
CallGetVerb_FromHead ==
    /\ pc = "idle"
    /\ \E w \in Tokens(doc) :
          /\ gv_w' = w
          /\ gv_h' = doc.head[w]
    /\ gv_ret' = NoToken
    /\ pc' = "get_verb"
    /\ UNCHANGED <<stVars, wkVars, doc, defined, smVars, fsVars, lkVars, lexVars>>

\* get_verb(w): h = w
CallGetVerb ==
    /\ pc = "idle"
    /\ \E w \in Tokens(doc) :
          /\ gv_w' = w
          /\ gv_h' = w
    /\ gv_ret' = NoToken
    /\ pc' = "get_verb"
    /\ UNCHANGED <<stVars, wkVars, doc, defined, smVars, fsVars, lkVars, lexVars>>

\* One iteration of the while loop that does not break: h = h.head
GetVerbLoop ==
    /\ pc = "get_verb"
    /\ ~IsMainVerb(doc, gv_h)
    /\ gv_h' = doc.head[gv_h]
    /\ UNCHANGED <<stVars, wkVars, doc, pc, gv_w, gv_ret, defined, smVars, fsVars, lkVars, lexVars>>

\* The iteration that breaks, and the return of h.
GetVerbReturn ==
    /\ pc = "get_verb"
    /\ IsMainVerb(doc, gv_h)
    /\ gv_ret' = gv_h
    /\ pc' = "idle"
    /\ UNCHANGED <<stVars, wkVars, doc, gv_w, gv_h, defined, smVars, fsVars, lkVars, lexVars>>

\* A get_subjMap that goes on filling the dict of the call before.
CallGetSubjMap_KeepMap ==
    /\ pc = "idle"
    /\ pc' = "get_subjMap"
    /\ sm_i' = 1
    /\ sm_doc' = doc
    /\ defined' = defined \ {"subj_map"}
    /\ gv_w' = NoToken /\ gv_h' = NoToken /\ gv_ret' = NoToken
    /\ UNCHANGED <<stVars, wkVars, doc, subj_map, fsVars, lkVars, lexVars>>

\* get_subjMap(doc): subj_map = {}
CallGetSubjMap ==
    /\ pc = "idle"
    /\ pc' = "get_subjMap"
    /\ subj_map' = <<>>
    /\ sm_i' = 1
    /\ sm_doc' = doc
    /\ defined' = defined \ {"subj_map"}
    /\ gv_w' = NoToken /\ gv_h' = NoToken /\ gv_ret' = NoToken
    /\ UNCHANGED <<stVars, wkVars, doc, fsVars, lkVars, lexVars>>

\* One token w of the scan: if w.dep_ == 'nsubj': subj_map.update({w.head: w})
SubjMapScan ==
    /\ pc = "get_subjMap"
    /\ sm_i <= Len(DocOrder(doc))
    /\ LET w == DocOrder(doc)[sm_i]
       IN  subj_map' = IF doc.dep[w] = "nsubj"
                       THEN DictUpdate(subj_map, doc.head[w], w)
                       ELSE subj_map
    /\ sm_i' = sm_i + 1
    /\ UNCHANGED <<stVars, wkVars, doc, pc, gvVars, defined, sm_doc, fsVars, lkVars, lexVars>>

\* return subj_map
SubjMapReturn ==
    /\ pc = "get_subjMap"
    /\ sm_i > Len(DocOrder(doc))
    /\ pc' = "idle"
    /\ sm_i' = 0
    /\ defined' = defined \cup {"subj_map"}
    /\ UNCHANGED <<stVars, wkVars, doc, gvVars, subj_map, sm_doc, fsVars, lkVars, lexVars>>

\* find_sentence(doc): return_items = {}
CallFindSentence ==
    /\ pc = "idle"
    /\ pc' = "find_sentence"
    /\ return_items' = <<>>
    /\ fs_s' = 1
    /\ fs_doc' = doc
    /\ defined' = defined \ {"found_sentences"}
    /\ gv_w' = NoToken /\ gv_h' = NoToken /\ gv_ret' = NoToken
    /\ UNCHANGED <<stVars, wkVars, doc, smVars, lkVars, lexVars>>

\* The body of "for s in doc.sents" for one sentence.
FindSentenceStep ==
    /\ pc = "find_sentence"
    /\ fs_s <= NumSents(doc)
    /\ ~VerbsDiverge(doc, fs_s)
    /\ return_items' = OuterLoop(doc, return_items, fs_s,
                                 ep_words(doc, fs_s), fp_words(doc, fs_s))
    /\ fs_s' = fs_s + 1
    /\ UNCHANGED <<stVars, wkVars, doc, pc, gvVars, defined, smVars, fs_doc, lkVars, lexVars>>

\* The body for a sentence in which a call of get_verb never returns.
FindSentenceHang ==
    /\ pc = "find_sentence"
    /\ fs_s <= NumSents(doc)
    /\ VerbsDiverge(doc, fs_s)
    /\ pc' = "find_sentence"
    /\ UNCHANGED <<stVars, wkVars, doc, gvVars, defined, smVars, fsVars, lkVars, lexVars>>

\* return return_items
FindSentenceReturn ==
    /\ pc = "find_sentence"
    /\ fs_s > NumSents(doc)
    /\ pc' = "idle"
    /\ fs_s' = 0
    /\ defined' = defined \cup {"found_sentences"}
    /\ UNCHANGED <<stVars, wkVars, doc, gvVars, return_items, fs_doc, smVars, lkVars, lexVars>>

\* The speaker lookup over found_sentences and subj_map begins.
CallLookup ==
    /\ pc = "idle"
    /\ {"found_sentences", "subj_map"} \subseteq defined
    /\ sm_doc = fs_doc
    /\ pc' = "lookup"
    /\ lk_i' = 1
    /\ printed' = <<>>
    /\ gv_w' = NoToken /\ gv_h' = NoToken /\ gv_ret' = NoToken
    /\ UNCHANGED <<stVars, wkVars, doc, defined, smVars, fsVars, lexVars>>

\* e, f, v = instance; subj = subj_map[v]; print(e, f, v, subj)
LookupStep ==
    /\ pc = "lookup"
    /\ lk_i <= Len(Flatten(return_items))
    /\ LET inst == Flatten(return_items)[lk_i]
       IN  /\ DictHas(subj_map, inst[3])
           /\ printed' = Append(printed,
                 <<inst[1], inst[2], inst[3], DictGet(subj_map, inst[3])>>)
    /\ lk_i' = lk_i + 1
    /\ UNCHANGED <<stVars, wkVars, doc, pc, gvVars, defined, smVars, fsVars, lexVars>>

\* A lookup that swallows the KeyError and goes on with the next instance.
LookupKeyError_Skip ==
    /\ pc = "lookup"
    /\ lk_i <= Len(Flatten(return_items))
    /\ ~DictHas(subj_map, Flatten(return_items)[lk_i][3])
    /\ lk_i' = lk_i + 1
    /\ UNCHANGED <<stVars, wkVars, doc, pc, gvVars, defined, smVars, fsVars, printed, lexVars>>

\* subj_map[v] raises KeyError; nothing catches it.
LookupKeyError ==
    /\ pc = "lookup"
    /\ lk_i <= Len(Flatten(return_items))
    /\ ~DictHas(subj_map, Flatten(return_items)[lk_i][3])
    /\ pc' = "KeyError"
    /\ UNCHANGED <<stVars, wkVars, doc, gvVars, defined, smVars, fsVars, lkVars, lexVars>>

\* Both loops are exhausted.
LookupDone ==
    /\ pc = "lookup"
    /\ lk_i > Len(Flatten(return_items))
    /\ pc' = "done"
    /\ UNCHANGED <<stVars, wkVars, doc, gvVars, defined, smVars, fsVars, lkVars, lexVars>>

\* doc = nlp(sent), docp = nlp(para), docp2 = nlp(para): the next text is
\* parsed; the results of earlier calls stay bound.
Nlp ==
    /\ pc = "idle"
    /\ doc' \in ExampleDocs
    /\ UNCHANGED <<stVars, wkVars, pc, gvVars, defined, smVars, fsVars, lkVars, lexVars>>

Next ==
    \/ CallGetVerb
    \/ GetVerbLoop
    \/ GetVerbReturn
    \/ CallGetSubjMap
    \/ SubjMapScan
    \/ SubjMapReturn
    \/ CallFindSentence
    \/ FindSentenceStep
    \/ FindSentenceHang
    \/ FindSentenceReturn
    \/ CallLookup
    \/ LookupStep
    \/ LookupKeyError
    \/ LookupDone

Spec == Init /\ [][Next]_vars

\* Calls of get_verb alone.  A call that has started keeps running: the
\* interpreter executes the next iteration or the return.
NextVerb ==
    \/ CallGetVerb
    \/ GetVerbLoop
    \/ GetVerbReturn

FairVerbSpec ==
    Init /\ [][NextVerb]_vars /\ WF_vars(GetVerbLoop) /\ WF_vars(GetVerbReturn)

\* The word lists matched against a document's tokens.
NextLex ==
    \/ MatchEarningsWords
    \/ MatchForwardWords

LexSpec == InitLex /\ [][NextLex]_vars

\* The notebook's own runs, the matcher applied to the example texts, and
\* runs on short texts.
InitExample ==
    /\ \/ doc \in ExampleDocs
       \/ ParsedDocOfSize(doc, Texts, ShortTokens)
    /\ pc = "idle"
    /\ gv_w = NoToken
    /\ gv_h = NoToken
    /\ gv_ret = NoToken
    /\ defined = {}
    /\ subj_map = <<>>
    /\ sm_i = 0
    /\ sm_doc = NoDoc
    /\ return_items = <<>>
    /\ fs_s = 0
    /\ fs_doc = NoDoc
    /\ lk_i = 0
    /\ printed = <<>>
    /\ e_words = <<>>
    /\ f_words = <<>>
    /\ NoWalk
    /\ NoSession

ExampleSpec == InitExample /\ [][Next]_vars

\* get_subjMap, find_sentence and the lookup called on one text after
\* another.
NextDocs ==
    \/ Nlp
    \/ CallGetSubjMap
    \/ SubjMapScan
    \/ SubjMapReturn
    \/ CallFindSentence
    \/ FindSentenceStep
    \/ FindSentenceHang
    \/ FindSentenceReturn
    \/ CallLookup
    \/ LookupStep
    \/ LookupKeyError
    \/ LookupDone

DocsSpec == InitExample /\ [][NextDocs]_vars

\* ------------------------------------------- single-sentence walkthrough
\* Some call of get_verb made by the dict comprehension never returns.
EVerbsDiverge(d, ws) == \E k \in DOMAIN ws : GetVerb(d, ws[k]) = NoToken

\* e_verbs = {w:get_verb(w) for w in e_words}
BuildEVerbs ==
    /\ pc = "idle"
    /\ "e_words" \in defined
    /\ ~EVerbsDiverge(doc, e_words)
    /\ e_verbs' = [k \in DOMAIN e_words |->
                     [key |-> e_words[k], val |-> GetVerb(doc, e_words[k])]]
    /\ defined' = defined \cup {"e_verbs"}
    /\ UNCHANGED <<stVars, doc, pc, gvVars, smVars, fsVars, lkVars, lexVars,
                   wk_i, wk_printed>>

\* The comprehension calls get_verb on a word whose walk never ends.
BuildEVerbsHang ==
    /\ pc = "idle"
    /\ "e_words" \in defined
    /\ EVerbsDiverge(doc, e_words)
    /\ pc' = "e_verbs"
    /\ UNCHANGED <<stVars, doc, gvVars, defined, smVars, fsVars, lkVars,
                   lexVars, wkVars>>

\* for e, v in e_verbs.items(): the loop of the walkthrough begins.
CallWalk ==
    /\ pc = "idle"
    /\ {"e_verbs", "subj_map"} \subseteq defined
    /\ pc' = "walk"
    /\ wk_i' = 1
    /\ wk_printed' = <<>>
    /\ UNCHANGED <<stVars, doc, gvVars, defined, smVars, fsVars, lkVars,
                   lexVars, e_verbs>>

\* A lookup under the verb itself.
SpeakerKey_Verb(d, v) == v

\* The key of the lookup for the verb v: v.head
SpeakerKey(d, v) == d.head[v]

\* subj = subj_map[v.head]; print(e, subj)
WalkStep ==
    /\ pc = "walk"
    /\ wk_i <= Len(e_verbs)
    /\ LET e == e_verbs[wk_i].key
           v == e_verbs[wk_i].val
       IN  /\ DictHas(subj_map, SpeakerKey(doc, v))
           /\ wk_printed' = Append(wk_printed,
                 <<e, DictGet(subj_map, SpeakerKey(doc, v))>>)
    /\ wk_i' = wk_i + 1
    /\ UNCHANGED <<stVars, doc, pc, gvVars, defined, smVars, fsVars, lkVars,
                   lexVars, e_verbs>>

\* subj_map[v.head] raises KeyError; nothing catches it.
WalkKeyError ==
    /\ pc = "walk"
    /\ wk_i <= Len(e_verbs)
    /\ ~DictHas(subj_map, SpeakerKey(doc, e_verbs[wk_i].val))
    /\ pc' = "KeyError"
    /\ UNCHANGED <<stVars, doc, gvVars, defined, smVars, fsVars, lkVars,
                   lexVars, wkVars>>

\* The items of e_verbs are exhausted.
WalkDone ==
    /\ pc = "walk"
    /\ wk_i > Len(e_verbs)
    /\ pc' = "done"
    /\ UNCHANGED <<stVars, doc, gvVars, defined, smVars, fsVars, lkVars,
                   lexVars, wkVars>>

\* The cells of the walkthrough: e_words and e_verbs, get_subjMap, and the
\* loop that prints the speaker.
NextWalk ==
    \/ MatchEarningsWords
    \/ BuildEVerbs
    \/ BuildEVerbsHang
    \/ CallGetSubjMap
    \/ SubjMapScan
    \/ SubjMapReturn
    \/ CallWalk
    \/ WalkStep
    \/ WalkKeyError
    \/ WalkDone

WalkSpec == InitExample /\ [][NextWalk]_vars

\* ============================================================ Stata session
nlpVars == <<doc, pc, gvVars, defined, smVars, fsVars, lkVars, lexVars,
             wkVars>>

\* ---------------------------------------------------------------- values
\* Stata's missing value ".": it compares greater than every number.
StataMissing == 2000000000

mi(v) == v = StataMissing

\* Times the panel is multiplied by in "gen i = j*100+_n".
FirmIdBase == 100

\* True model parameters: scalar b0 = 0, b1 = -3, b2 = 2, b3 = -2.
b0 == 0

b1 == 0 - 3

b2 == 2

b3 == 0 - 2

\* rho, u and y are held in sixtieths, so that the mean of up to five
\* 0/1 values is an integer.
RhoScale == 60

\* pr is held in units of 1e-9.
PrScale == 1000000000

\* rbinomial(1, p) is defined for p from 1e-8 to 1 - 1e-8 and returns
\* missing outside.
RbinomialMinP == 10

\* w is held in tenths; runiform(1, 3) draws from the open interval (1, 3).
WDraws == {15, 25}

\* Draws of rnormal(w, 1): any real; two near 0 and two far out.
XDraws == {0 - 10, 0 - 1, 1, 10}

\* Draw of rnormal() kept for the noise term, in sixtieths.
UDraw == 0

\* An observation before any variable is created: every variable the
\* script will create, missing.
BlankObs ==
    [ j |-> StataMissing, i |-> StataMissing, t |-> StataMissing,
      tau |-> StataMissing, rho |-> StataMissing, u |-> StataMissing,
      y |-> StataMissing, first |-> StataMissing, w |-> StataMissing,
      x |-> StataMissing, pr |-> StataMissing, phat |-> StataMissing,
      wt |-> StataMissing, y1 |-> StataMissing, y0 |-> StataMissing,
      grp |-> StataMissing, tau_orig |-> StataMissing,
      y1tmp |-> StataMissing, y0tmp |-> StataMissing ]

\* ---------------------------------------------------------------- sort
RECURSIVE LexLess(_, _)
\* Key a sorts before key b (keys of equal length).
LexLess(a, b) ==
    IF a = <<>> THEN FALSE
    ELSE IF Head(a) # Head(b) THEN Head(a) < Head(b)
    ELSE LexLess(Tail(a), Tail(b))

RECURSIVE OrdersOf(_, _)
\* The orders in which sort may leave the observations rem when their keys
\* are keys: ascending, observations with equal keys in any order.
OrdersOf(keys, rem) ==
    IF rem = {} THEN {<<>>}
    ELSE LET least == {k \in rem : \A m \in rem : ~LexLess(keys[m], keys[k])}
         IN  UNION {{<<k>> \o rest : rest \in OrdersOf(keys, rem \ {k})} :
                      k \in least}

\* The values of the variables by (a list of names) in observation r.
KeyOf(r, by) == [n \in DOMAIN by |-> r[by[n]]]

\* The data sets "sort <by>" may leave.
Sorts(d, by) ==
    {[n \in DOMAIN d |-> d[ord[n]]] :
        ord \in OrdersOf([k \in DOMAIN d |-> KeyOf(d[k], by)], DOMAIN d)}

\* _n of observation k within its by-group, in data sorted by by.
ByN(d, k, by) ==
    Cardinality({m \in 1..k : KeyOf(d[m], by) = KeyOf(d[k], by)})

\* expand n: each observation is kept and n - 1 copies of it are added at
\* the end of the data.
Expand(d, n) ==
    d \o [k \in 1..(Len(d) * (n - 1)) |-> d[((k - 1) \div (n - 1)) + 1]]

\* The mean of tau over the other observations of the by-group.
EgenMeanTau_LeaveOneOut(d, k, by) ==
    LET grp == {m \in DOMAIN d : KeyOf(d[m], by) = KeyOf(d[k], by)
                                  /\ ~mi(d[m].tau)} \ {k}
        ones == {m \in grp : d[m].tau = 1}
    IN  IF grp = {} THEN StataMissing
        ELSE (RhoScale * Cardinality(ones)) \div Cardinality(grp)

\* egen <new> = mean(tau), by by: the mean over the observations of the
\* by-group whose tau is not missing, missing when there is none.
EgenMeanTau(d, k, by) ==
    LET grp == {m \in DOMAIN d : KeyOf(d[m], by) = KeyOf(d[k], by)
                                  /\ ~mi(d[m].tau)}
        ones == {m \in grp : d[m].tau = 1}
    IN  IF grp = {} THEN StataMissing
        ELSE (RhoScale * Cardinality(ones)) \div Cardinality(grp)

\* y = b0 + b1*tau + b2*1.tau*rho + b3*0.tau*rho + u, missing when an
\* operand is.
Outcome(tau, rho, u) ==
    IF mi(tau) \/ mi(rho) \/ mi(u) THEN StataMissing
    ELSE RhoScale * b0 + RhoScale * b1 * tau
           + b2 * (IF tau = 1 THEN rho ELSE 0)
           + b3 * (IF tau = 0 THEN rho ELSE 0) + u

\* ------------------------------------------------------ panel construction
\* clear: an empty data set; the script starts.
InitData ==
    /\ data = <<>>
    /\ cols = {}
    /\ spc = "set obs"
    /\ \E nj \in 1..MaxInd, nf \in 1..MaxFirms, nt \in 1..MaxQuarters :
          /\ nj * nf * nt <= MaxPanelObs
          /\ dims = [nInd |-> nj, nFirms |-> nf, nQuarters |-> nt]
    /\ macros = <<>>
    /\ e_res = <<>>
    /\ loop_g = 0

\* qui set obs 40
SetObs ==
    /\ spc = "set obs"
    /\ data' = [k \in 1..dims.nInd |-> BlankObs]
    /\ spc' = "gen j"
    /\ UNCHANGED <<nlpVars, cols, dims, macros, e_res, loop_g>>

\* gen j = _n
GenJ ==
    /\ spc = "gen j"
    /\ data' = [k \in DOMAIN data |-> [data[k] EXCEPT !.j = k]]
    /\ cols' = cols \cup {"j"}
    /\ spc' = "expand firms"
    /\ UNCHANGED <<nlpVars, dims, macros, e_res, loop_g>>

\* qui expand 50
ExpandFirms ==
    /\ spc = "expand firms"
    /\ data' = Expand(data, dims.nFirms)
    /\ spc' = "gen i"
    /\ UNCHANGED <<nlpVars, cols, dims, macros, e_res, loop_g>>

\* gen i = j*100+_n without the by prefix.
GenI_NoBy ==
    /\ spc = "gen i"
    /\ data' = [k \in DOMAIN data |->
                  [data[k] EXCEPT !.i = data[k].j * FirmIdBase + k]]
    /\ cols' = cols \cup {"i"}
    /\ spc' = "expand quarters"
    /\ UNCHANGED <<nlpVars, dims, macros, e_res, loop_g>>

\* bys j: gen i = j*100+_n
GenI ==
    /\ spc = "gen i"
    /\ \E d \in Sorts(data, <<"j">>) :
          data' = [k \in DOMAIN d |->
                     [d[k] EXCEPT !.i = d[k].j * FirmIdBase + ByN(d, k, <<"j">>)]]
    /\ cols' = cols \cup {"i"}
    /\ spc' = "expand quarters"
    /\ UNCHANGED <<nlpVars, dims, macros, e_res, loop_g>>

\* qui expand 40
ExpandQuarters ==
    /\ spc = "expand quarters"
    /\ data' = Expand(data, dims.nQuarters)
    /\ spc' = "gen t"
    /\ UNCHANGED <<nlpVars, cols, dims, macros, e_res, loop_g>>

\* bys j i: gen t = _n
GenT ==
    /\ spc = "gen t"
    /\ \E d \in Sorts(data, <<"j", "i">>) :
          data' = [k \in DOMAIN d |-> [d[k] EXCEPT !.t = ByN(d, k, <<"j", "i">>)]]
    /\ cols' = cols \cup {"t"}
    /\ spc' = "gen tau"
    /\ UNCHANGED <<nlpVars, dims, macros, e_res, loop_g>>

\* ------------------------------------------------------ exogenous treatment
\* gen tau = rbinomial(1, .05)
GenTauExo ==
    /\ spc = "gen tau"
    /\ \E draw \in [DOMAIN data -> {0, 1}] :
          data' = [k \in DOMAIN data |-> [data[k] EXCEPT !.tau = draw[k]]]
    /\ cols' = cols \cup {"tau"}
    /\ spc' = "egen rho"
    /\ UNCHANGED <<nlpVars, dims, macros, e_res, loop_g>>

\* bys j t: egen rho = mean(tau)
EgenRhoExo ==
    /\ spc = "egen rho"
    /\ \E d \in Sorts(data, <<"j", "t">>) :
          data' = [k \in DOMAIN d |->
                     [d[k] EXCEPT !.rho = EgenMeanTau(d, k, <<"j", "t">>)]]
    /\ cols' = cols \cup {"rho"}
    /\ spc' = "gen y"
    /\ UNCHANGED <<nlpVars, dims, macros, e_res, loop_g>>

\* gen u = rnormal(); gen y = b0 + b1*tau + b2*1.tau*rho + b3*0.tau*rho + u
GenYExo ==
    /\ spc = "gen y"
    /\ data' = [k \in DOMAIN data |->
                  [data[k] EXCEPT !.u = UDraw,
                                  !.y = Outcome(data[k].tau, data[k].rho, UDraw)]]
    /\ cols' = cols \cup {"u", "y"}
    /\ spc' = "keep"
    /\ UNCHANGED <<nlpVars, dims, macros, e_res, loop_g>>

\* ----------------------------------------------------- endogenous treatment
\* The variables keep i j t drops hold nothing afterwards.
KeepOnly(r, keep) ==
    [f \in DOMAIN r |-> IF f \in keep THEN r[f] ELSE StataMissing]

\* keep i j t
KeepIJT ==
    /\ spc = "keep"
    /\ Len(data) <= MaxObs
    /\ data' = [k \in DOMAIN data |-> KeepOnly(data[k], {"i", "j", "t"})]
    /\ cols' = {"i", "j", "t"}
    /\ spc' = "gen _first"
    /\ UNCHANGED <<nlpVars, dims, macros, e_res, loop_g>>

\* bys j t: gen _first = _n == 1
GenFirst ==
    /\ spc = "gen _first"
    /\ \E d \in Sorts(data, <<"j", "t">>) :
          data' = [k \in DOMAIN d |->
                     [d[k] EXCEPT !.first =
                         IF ByN(d, k, <<"j", "t">>) = 1 THEN 1 ELSE 0]]
    /\ cols' = cols \cup {"_first"}
    /\ spc' = "gen w"
    /\ UNCHANGED <<nlpVars, dims, macros, e_res, loop_g>>

\* qui gen w = runiform(1, 3) if _first == 1
GenW ==
    /\ spc = "gen w"
    /\ \E draw \in [DOMAIN data -> WDraws] :
          data' = [k \in DOMAIN data |->
                     [data[k] EXCEPT !.w =
                         IF data[k].first = 1 THEN draw[k] ELSE StataMissing]]
    /\ cols' = cols \cup {"w"}
    /\ spc' = "sort"
    /\ UNCHANGED <<nlpVars, dims, macros, e_res, loop_g>>

\* sort j t i
SortJTI ==
    /\ spc = "sort"
    /\ data' \in Sorts(data, <<"j", "t", "i">>)
    /\ spc' = "carryforward"
    /\ UNCHANGED <<nlpVars, cols, dims, macros, e_res, loop_g>>

RECURSIVE CarriedW(_, _)
\* w of observation k after carryforward has passed over observations
\* 1..k: a missing w takes the value of the observation before it in the
\* same by-group, when that one is not missing.
CarriedW(d, k) ==
    IF ~mi(d[k].w) THEN d[k].w
    ELSE IF k > 1 /\ KeyOf(d[k - 1], <<"j", "t">>) = KeyOf(d[k], <<"j", "t">>)
         THEN CarriedW(d, k - 1)
    ELSE StataMissing

\* qui by j t: carryforward w, replace
Carryforward ==
    /\ spc = "carryforward"
    /\ data' = [k \in DOMAIN data |-> [data[k] EXCEPT !.w = CarriedW(data, k)]]
    /\ spc' = "gen x"
    /\ UNCHANGED <<nlpVars, cols, dims, macros, e_res, loop_g>>

\* gen x = rnormal(w, 1)
GenX ==
    /\ spc = "gen x"
    /\ \E draw \in [DOMAIN data -> XDraws] :
          data' = [k \in DOMAIN data |->
                     [data[k] EXCEPT !.x =
                         IF mi(data[k].w) THEN StataMissing ELSE draw[k]]]
    /\ cols' = cols \cup {"x"}
    /\ spc' = "gen pr"
    /\ UNCHANGED <<nlpVars, dims, macros, e_res, loop_g>>

\* 1/(1+exp(2*x)) in units of 1e-9, rounded down, for the draws of x.
Logistic2(x) ==
    CASE x = 0 - 10 -> 999999997
      [] x = 0 - 1  -> 880797077
      [] x = 1      -> 119202922
      [] x = 10     -> 2

\* gen pr = 1/(1+exp(2*x))
GenPr ==
    /\ spc = "gen pr"
    /\ data' = [k \in DOMAIN data |->
                  [data[k] EXCEPT !.pr =
                      IF mi(data[k].x) THEN StataMissing
                      ELSE Logistic2(data[k].x)]]
    /\ cols' = cols \cup {"pr"}
    /\ spc' = "gen tau endo"
    /\ UNCHANGED <<nlpVars, dims, macros, e_res, loop_g>>

\* The values rbinomial(1, p) can return.
Rbinomial1(p) ==
    IF mi(p) \/ p < RbinomialMinP \/ p > PrScale - RbinomialMinP
    THEN {StataMissing}
    ELSE {0, 1}

\* qui gen tau = rbinomial(1,pr)
GenTauEndo ==
    /\ spc = "gen tau endo"
    /\ \E draw \in [DOMAIN data -> {0, 1, StataMissing}] :
          /\ \A k \in DOMAIN data : draw[k] \in Rbinomial1(data[k].pr)
          /\ data' = [k \in DOMAIN data |-> [data[k] EXCEPT !.tau = draw[k]]]
    /\ cols' = cols \cup {"tau"}
    /\ spc' = "replace tau 0"
    /\ UNCHANGED <<nlpVars, dims, macros, e_res, loop_g>>

\* The .5 of the two replace commands, in the units of pr.
Half == PrScale \div 2

\* qui replace tau = 0 if mi(tau) & pr < .5
FixTau0 ==
    /\ spc = "replace tau 0"
    /\ data' = [k \in DOMAIN data |->
                  IF mi(data[k].tau) /\ data[k].pr < Half
                  THEN [data[k] EXCEPT !.tau = 0]
                  ELSE data[k]]
    /\ spc' = "replace tau 1"
    /\ UNCHANGED <<nlpVars, cols, dims, macros, e_res, loop_g>>

\* qui replace tau = 1 if mi(tau) & pr >= .5
FixTau1 ==
    /\ spc = "replace tau 1"
    /\ data' = [k \in DOMAIN data |->
                  IF mi(data[k].tau) /\ data[k].pr >= Half
                  THEN [data[k] EXCEPT !.tau = 1]
                  ELSE data[k]]
    /\ spc' = "egen rho endo"
    /\ UNCHANGED <<nlpVars, cols, dims, macros, e_res, loop_g>>

\* bys j t: egen rho = mean(tau)
EgenRhoEndo ==
    /\ spc = "egen rho endo"
    /\ \E d \in Sorts(data, <<"j", "t">>) :
          data' = [k \in DOMAIN d |->
                     [d[k] EXCEPT !.rho = EgenMeanTau(d, k, <<"j", "t">>)]]
    /\ cols' = cols \cup {"rho"}
    /\ spc' = "gen y endo"
    /\ UNCHANGED <<nlpVars, dims, macros, e_res, loop_g>>

\* rnormal() + .05*x in sixtieths, missing when x is.
NoiseOf(x) == IF mi(x) THEN StataMissing ELSE UDraw + (RhoScale \div 20) * x

\* gen u = rnormal() + .05*x
\* gen y = b0 + b1*tau + b2*1.tau*rho + b3*0.tau*rho + u
GenYEndo ==
    /\ spc = "gen y endo"
    /\ data' = [k \in DOMAIN data |->
                  [data[k] EXCEPT
                      !.u = NoiseOf(data[k].x),
                      !.y = Outcome(data[k].tau, data[k].rho,
                                    NoiseOf(data[k].x))]]
    /\ cols' = cols \cup {"u", "y"}
    /\ spc' = "end"
    /\ UNCHANGED <<nlpVars, dims, macros, e_res, loop_g>>

\* Cells 1, 2 and 5 of the notebook, run in order.
NextPanel ==
    \/ SetObs
    \/ GenJ
    \/ ExpandFirms
    \/ GenI
    \/ ExpandQuarters
    \/ GenT
    \/ GenTauExo
    \/ EgenRhoExo
    \/ GenYExo
    \/ KeepIJT
    \/ GenFirst
    \/ GenW
    \/ SortJTI
    \/ Carryforward
    \/ GenX
    \/ GenPr
    \/ GenTauEndo
    \/ FixTau0
    \/ FixTau1
    \/ EgenRhoEndo
    \/ GenYEndo

\* No text is being matched.
NoText ==
    /\ doc = NoDoc
    /\ pc = "off"
    /\ gv_w = NoToken
    /\ gv_h = NoToken
    /\ gv_ret = NoToken
    /\ defined = {}
    /\ subj_map = <<>>
    /\ sm_i = 0
    /\ sm_doc = NoDoc
    /\ return_items = <<>>
    /\ fs_s = 0
    /\ fs_doc = NoDoc
    /\ lk_i = 0
    /\ printed = <<>>
    /\ e_words = <<>>
    /\ f_words = <<>>
    /\ NoWalk

InitPanel == NoText /\ InitData

PanelSpec == InitPanel /\ [][NextPanel]_vars

\* ------------------------------------------------------ propensity weights
\* phat is held in tenths and wt in ten-thousandths of ten.
PhatOne == 10

WtScale == 1000

\* Predicted probabilities of "logit tau x" for the draws of x: two fits
\* under which the probability of treatment falls with x.
LogitFits ==
    { [m \in XDraws |-> IF m < 0 THEN 8 ELSE 2],
      [m \in XDraws |-> IF m < 0 - 1 THEN 8 ELSE IF m > 1 THEN 2 ELSE 5] }

\* The panel of dimensions dm, sorted by j t i.
PanelOf(dm) ==
    [k \in 1..(dm.nInd * dm.nFirms * dm.nQuarters) |->
        LET jj == ((k - 1) \div (dm.nFirms * dm.nQuarters)) + 1
            tt == (((k - 1) \div dm.nFirms) % dm.nQuarters) + 1
            ff == ((k - 1) % dm.nFirms) + 1
        IN  [BlankObs EXCEPT !.j = jj, !.t = tt, !.i = jj * FirmIdBase + ff]]

\* The values tau can have after rbinomial(1, p) and the two replace
\* commands.
TreatmentOf(p) ==
    IF Rbinomial1(p) = {StataMissing}
    THEN {IF p < Half THEN 0 ELSE 1}
    ELSE {0, 1}

\* The data after the endogenous cell, "logit tau x" and "predict phat, pr"
\* have run: in every industry-quarter _first marks one firm and w is
\* carried from it to the firms after it; x is a draw where w is not
\* missing, tau is what rbinomial and the two replace commands leave, rho,
\* u and y are computed from them, and phat is the fit's prediction where
\* x is not missing.  logit has found both values of tau among the
\* observations it used.  The observations are listed by j t i.
InitWeightData ==
    /\ \E nj \in 1..MaxInd, nf \in 1..MaxFirms, nt \in 1..MaxQuarters :
          /\ nj * nf * nt <= MaxObs
          /\ dims = [nInd |-> nj, nFirms |-> nf, nQuarters |-> nt]
    /\ \E fit \in LogitFits, wv \in WDraws : \E panel \in {PanelOf(dims)} :
       \E fs \in [DOMAIN panel -> {0, 1}] :
          /\ \A k \in DOMAIN panel :
                Cardinality({m \in DOMAIN panel :
                                /\ panel[m].j = panel[k].j
                                /\ panel[m].t = panel[k].t
                                /\ fs[m] = 1}) = 1
          /\ \E d1 \in {[k \in DOMAIN panel |->
                           [panel[k] EXCEPT
                               !.first = fs[k],
                               !.w = IF fs[k] = 1 THEN wv
                                     ELSE StataMissing]]} :
             \E d2 \in {[k \in DOMAIN d1 |->
                           [d1[k] EXCEPT !.w = CarriedW(d1, k)]]} :
             \E xs \in [DOMAIN d2 -> XDraws \cup {StataMissing}],
                ts \in [DOMAIN d2 -> {0, 1}] :
                /\ \A k \in DOMAIN d2 : mi(xs[k]) <=> mi(d2[k].w)
                /\ \A k \in DOMAIN d2 :
                      ts[k] \in TreatmentOf(IF mi(xs[k]) THEN StataMissing
                                            ELSE Logistic2(xs[k]))
                /\ {ts[k] : k \in {m \in DOMAIN xs : ~mi(xs[m])}} = {0, 1}
                /\ \E d3 \in {[k \in DOMAIN d2 |->
                                 [d2[k] EXCEPT
                                     !.x = xs[k],
                                     !.pr = IF mi(xs[k]) THEN StataMissing
                                            ELSE Logistic2(xs[k]),
                                     !.tau = ts[k],
                                     !.u = NoiseOf(xs[k]),
                                     !.phat = IF mi(xs[k]) THEN StataMissing
                                              ELSE fit[xs[k]]]]} :
                      data = [k \in DOMAIN d3 |->
                                [d3[k] EXCEPT
                                    !.rho = EgenMeanTau(d3, k, <<"j", "t">>),
                                    !.y = Outcome(d3[k].tau,
                                             EgenMeanTau(d3, k, <<"j", "t">>),
                                             d3[k].u)]]
                /\ e_res = [cmd |-> "logit", depvar |-> "tau",
                            indepvars |-> <<"x">>, weight |-> "",
                            sample |-> {k \in DOMAIN xs : ~mi(xs[k])}]
    /\ cols = {"i", "j", "t", "_first", "w", "x", "pr", "tau", "rho", "u", "y",
               "phat"}
    /\ spc = "gen wt"
    /\ macros = <<>>
    /\ loop_g = 0

\* tau/phat + (1-tau)/(1-phat); a division by zero gives missing.
InverseProbability(tau, phat) ==
    IF mi(tau) \/ mi(phat) \/ phat = 0 \/ phat = PhatOne THEN StataMissing
    ELSE (WtScale * PhatOne * tau) \div phat
           + (WtScale * PhatOne * (1 - tau)) \div (PhatOne - phat)

\* gen wt = tau/phat + (1-tau)/(1-phat)
GenWt ==
    /\ spc = "gen wt"
    /\ data' = [k \in DOMAIN data |->
                  [data[k] EXCEPT
                      !.wt = InverseProbability(data[k].tau, data[k].phat)]]
    /\ cols' = cols \cup {"wt"}
    /\ spc' = "su phat 0"
    /\ UNCHANGED <<nlpVars, dims, macros, e_res, loop_g>>

\* r(min) and r(max) of summarize over the values vals, of which the
\* missing ones are left out; missing when none is left.
RMin(vals) ==
    LET S == {v \in vals : ~mi(v)}
    IN  IF S = {} THEN StataMissing ELSE CHOOSE v \in S : \A z \in S : v <= z

RMax(vals) ==
    LET S == {v \in vals : ~mi(v)}
    IN  IF S = {} THEN StataMissing ELSE CHOOSE v \in S : \A z \in S : v >= z

\* The macros with name set to value.
SetLocal(mac, name, value) ==
    [n \in DOMAIN mac \cup {name} |-> IF n = name THEN value ELSE mac[n]]

\* qui su phat if tau == 0; local min0 = `r(min)'; local max0 = `r(max)'
SuPhat0 ==
    /\ spc = "su phat 0"
    /\ LET vals == {data[k].phat : k \in {m \in DOMAIN data : data[m].tau = 0}}
       IN  macros' = SetLocal(SetLocal(macros, "min0", RMin(vals)),
                              "max0", RMax(vals))
    /\ spc' = "su phat 1"
    /\ UNCHANGED <<nlpVars, data, cols, dims, e_res, loop_g>>

\* qui su phat if tau == 1; local min1 = `r(min)'; local max1 = `r(max)'
SuPhat1 ==
    /\ spc = "su phat 1"
    /\ LET vals == {data[k].phat : k \in {m \in DOMAIN data : data[m].tau = 1}}
       IN  macros' = SetLocal(SetLocal(macros, "min1", RMin(vals)),
                              "max1", RMax(vals))
    /\ spc' = "replace wt"
    /\ UNCHANGED <<nlpVars, data, cols, dims, e_res, loop_g>>

\* Stata's max() and min(): missing arguments are ignored.
StataMax(a, b) == IF mi(a) THEN b ELSE IF mi(b) THEN a ELSE IF a > b THEN a ELSE b

StataMin(a, b) == IF mi(a) THEN b ELSE IF mi(b) THEN a ELSE IF a < b THEN a ELSE b

\* A rule that keeps the union of the two ranges.
Overlap_Union ==
    /\ spc = "replace wt"
    /\ data' = [k \in DOMAIN data |->
                  IF \/ data[k].phat < StataMin(macros["min0"], macros["min1"])
                     \/ data[k].phat > StataMax(macros["max0"], macros["max1"])
                  THEN [data[k] EXCEPT !.wt = StataMissing]
                  ELSE data[k]]
    /\ spc' = "loop init"
    /\ UNCHANGED <<nlpVars, cols, dims, macros, e_res, loop_g>>

\* replace wt = . if phat < max(`min0',`min1') | phat > min(`max0',`max1')
Overlap ==
    /\ spc = "replace wt"
    /\ data' = [k \in DOMAIN data |->
                  IF \/ data[k].phat < StataMax(macros["min0"], macros["min1"])
                     \/ data[k].phat > StataMin(macros["max0"], macros["max1"])
                  THEN [data[k] EXCEPT !.wt = StataMissing]
                  ELSE data[k]]
    /\ spc' = "loop init"
    /\ UNCHANGED <<nlpVars, cols, dims, macros, e_res, loop_g>>

\* ------------------------------------------------------ within-group loop
\* egen grp = group(j t): the rank of (j, t) among the values present.
GroupOf(d, k) ==
    1 + Cardinality({KeyOf(d[m], <<"j", "t">>) : m \in
                        {z \in DOMAIN d : LexLess(KeyOf(d[z], <<"j", "t">>),
                                                  KeyOf(d[k], <<"j", "t">>))}})

\* qui gen y1 = .; qui gen y0 = .; egen grp = group(j t);
\* qui levelsof grp, local(glevels)
LoopInit ==
    /\ spc = "loop init"
    /\ data' = [k \in DOMAIN data |->
                  [data[k] EXCEPT !.y1 = StataMissing, !.y0 = StataMissing,
                                  !.grp = GroupOf(data, k)]]
    /\ cols' = cols \cup {"y1", "y0", "grp"}
    /\ macros' = SetLocal(macros, "glevels",
                          {GroupOf(data, k) : k \in DOMAIN data})
    /\ loop_g' = 1
    /\ spc' = "foreach"
    /\ UNCHANGED <<nlpVars, dims, e_res>>

\* The observations "reg y tau [pw = wt] if grp == g" uses.
RegSample(d, g) ==
    {k \in DOMAIN d : /\ d[k].grp = g
                      /\ ~mi(d[k].y) /\ ~mi(d[k].tau) /\ ~mi(d[k].wt)}

\* Estimates (_cons, tau) a regression may return, in sixtieths.
CoefDraws == {<<0, 0 - 180>>, <<60, 0>>}

\* cap reg ... fails (_rc ~= 0) without two observations to fit.
RegFails(d, g) == Cardinality(RegSample(d, g)) < 2

\* One pass of the loop body in which reg fails: continue.
LoopContinue ==
    /\ spc = "foreach"
    /\ loop_g \in macros["glevels"]
    /\ RegFails(data, loop_g)
    /\ loop_g' = loop_g + 1
    /\ UNCHANGED <<nlpVars, data, cols, dims, macros, e_res, spc>>

\* The commands of the loop body act on the dataset ds = [obs, cols]: the
\* observations and the names of the variables that exist.

\* gen tau_orig = tau
GenTauOrig(ds) ==
    [obs  |-> [k \in DOMAIN ds.obs |->
                 [ds.obs[k] EXCEPT !.tau_orig = ds.obs[k].tau]],
     cols |-> ds.cols \cup {"tau_orig"}]

\* replace tau = v (no "if": every observation of the dataset)
ReplaceTau(ds, v) ==
    [ds EXCEPT !.obs = [k \in DOMAIN ds.obs |->
                          [ds.obs[k] EXCEPT !.tau = v]]]

\* predict name if e(sample): the linear prediction _cons + b[tau] * tau at
\* the tau the observation holds now, missing outside the estimation sample.
Predict(ds, name, b, smp) ==
    [obs  |-> [k \in DOMAIN ds.obs |->
                 [ds.obs[k] EXCEPT ![name] =
                     IF k \in smp /\ ~mi(ds.obs[k].tau)
                     THEN b[1] + b[2] * ds.obs[k].tau
                     ELSE StataMissing]],
     cols |-> ds.cols \cup {name}]

RestoreTau_Skip(ds) == ds

\* replace tau = tau_orig
RestoreTau(ds) ==
    [ds EXCEPT !.obs = [k \in DOMAIN ds.obs |->
                          [ds.obs[k] EXCEPT !.tau = ds.obs[k].tau_orig]]]

\* replace name = tmp if grp == g
ReplaceFromTmp(ds, name, tmp, g) ==
    [ds EXCEPT !.obs = [k \in DOMAIN ds.obs |->
                          IF ds.obs[k].grp = g
                          THEN [ds.obs[k] EXCEPT ![name] = ds.obs[k][tmp]]
                          ELSE ds.obs[k]]]

\* The variables the pattern y*tmp names.
YStarTmp(cs) == cs \cap {"y1tmp", "y0tmp"}

\* drop tau_orig y*tmp
DropTmp(ds) ==
    LET gone == {"tau_orig"} \cup YStarTmp(ds.cols)
    IN  [obs  |-> [k \in DOMAIN ds.obs |->
                     [ds.obs[k] EXCEPT
                        !.tau_orig = StataMissing,
                        !.y1tmp = IF "y1tmp" \in gone THEN StataMissing ELSE @,
                        !.y0tmp = IF "y0tmp" \in gone THEN StataMissing ELSE @]],
         cols |-> ds.cols \ gone]

\* The body after a regression with estimates b on sample smp, command by
\* command.
BodyAfterReg(ds, b, smp, g) ==
    LET s1 == GenTauOrig(ds)
        s2 == ReplaceTau(s1, 1)
        s3 == Predict(s2, "y1tmp", b, smp)
        s4 == ReplaceTau(s3, 0)
        s5 == Predict(s4, "y0tmp", b, smp)
        s6 == RestoreTau(s5)
        s7 == ReplaceFromTmp(s6, "y1", "y1tmp", g)
        s8 == ReplaceFromTmp(s7, "y0", "y0tmp", g)
    IN  DropTmp(s8)

\* One pass of the loop body in which reg succeeds:
\* gen tau_orig = tau; replace tau = 1; predict y1tmp if e(sample);
\* replace tau = 0; predict y0tmp if e(sample); replace tau = tau_orig;
\* replace y1 = y1tmp if grp == g; replace y0 = y0tmp if grp == g;
\* drop tau_orig y*tmp
LoopBody ==
    /\ spc = "foreach"
    /\ loop_g \in macros["glevels"]
    /\ ~RegFails(data, loop_g)
    /\ \E b \in CoefDraws :
          \E smp \in {RegSample(data, loop_g)} :
          \E out \in {BodyAfterReg([obs |-> data, cols |-> cols],
                                   b, smp, loop_g)} :
              /\ e_res' = [cmd |-> "regress", depvar |-> "y",
                           indepvars |-> <<"tau">>, weight |-> "wt",
                           sample |-> smp]
              /\ data' = out.obs
              /\ cols' = out.cols
    /\ loop_g' = loop_g + 1
    /\ UNCHANGED <<nlpVars, dims, macros, spc>>

\* The list of levels is exhausted.
LoopEnd ==
    /\ spc = "foreach"
    /\ loop_g \notin macros["glevels"]
    /\ spc' = "end"
    /\ UNCHANGED <<nlpVars, data, cols, dims, macros, e_res, loop_g>>

\* The cells from the propensity weights to the within-group loop.
NextWeight ==
    \/ GenWt
    \/ SuPhat0
    \/ SuPhat1
    \/ Overlap
    \/ LoopInit
    \/ LoopContinue
    \/ LoopBody
    \/ LoopEnd

InitWeight == NoText /\ InitWeightData

WeightSpec == InitWeight /\ [][NextWeight]_vars

\* ------------------------------------------------- vocabulary of the claims
\* Token h is tagged VERB and its dependency label is not aux.
NonAuxVerb(h) == doc.pos[h] = "VERB" /\ doc.dep[h] # "aux"

\* The head chain of w: w, its head, the head's head, ...
Chain(w) == {Up(doc.head, w, k) : k \in 0..doc.n}

\* Number of head links from w up to the chain token h.
Dist(w, h) == CHOOSE k \in 0..doc.n :
    /\ Up(doc.head, w, k) = h
    /\ \A j \in 0..(k - 1) : Up(doc.head, w, j) # h

HasGoverningVerb(w) == \E h \in Chain(w) : NonAuxVerb(h)

\* The first non-auxiliary verb on the head chain of w.
GoverningVerb(w) == CHOOSE h \in Chain(w) :
    /\ NonAuxVerb(h)
    /\ \A g \in Chain(w) : NonAuxVerb(g) => Dist(w, h) <= Dist(w, g)

IsTopicWord(w) == doc.text[w] \in {"earnings", "profitability", "dollars per share"}

IsForwardWord(w) == doc.text[w] \in {"forecasted", "estimated", "will", "expected"}

\* The pairs of sentence s that share a governing verb, as tokens.
SharedVerbPairs(s) ==
    {p \in Tokens(doc) \X Tokens(doc) :
        /\ doc.sent[p[1]] = s /\ doc.sent[p[2]] = s
        /\ IsTopicWord(p[1]) /\ IsForwardWord(p[2])
        /\ HasGoverningVerb(p[1]) /\ HasGoverningVerb(p[2])
        /\ GoverningVerb(p[1]) = GoverningVerb(p[2])}

\* The sentences whose loop body find_sentence has completed.
ScannedSents ==
    IF pc = "find_sentence" THEN 1..(fs_s - 1)
    ELSE IF "found_sentences" \in defined THEN 1..NumSents(doc)
    ELSE {}

\* ------------------------------------------------------------------ C1
\* C1: every instance find_sentence has recorded is filed under a sentence
\* s and is (e.text, f.text, v) for a topic word e and a forward word f of
\* s whose governing verbs are both the token v; a scanned sentence with no
\* such pair has no entry, and with no such sentence the result is empty.
C1_InstancesShareVerb ==
    /\ \A i \in DOMAIN return_items :
          \A j \in DOMAIN return_items[i].val :
             \E p \in SharedVerbPairs(return_items[i].key) :
                return_items[i].val[j] =
                   <<doc.text[p[1]], doc.text[p[2]], GoverningVerb(p[1])>>
    /\ \A s \in ScannedSents :
          SharedVerbPairs(s) = {} => ~DictHas(return_items, s)
    /\ ("found_sentences" \in defined
          /\ \A s \in 1..NumSents(doc) : SharedVerbPairs(s) = {})
       => return_items = <<>>

\* find_sentence has returned an instance for a sentence that also holds a
\* topic word and a forward word with different governing verbs.
C1_Witness ==
    /\ "found_sentences" \in defined
    /\ \E i \in DOMAIN return_items :
          LET s == return_items[i].key
          IN  \E e, f \in Tokens(doc) :
                 /\ doc.sent[e] = s /\ doc.sent[f] = s
                 /\ IsTopicWord(e) /\ IsForwardWord(f)
                 /\ <<e, f>> \notin SharedVerbPairs(s)

\* ------------------------------------------------------------------ C2
\* C2: for every scanned sentence the recorded instances are exactly one
\* per pair (e, f) of its topic words and forward words whose governing
\* verbs are the same token: as many instances as such pairs, each pair's
\* instance among them, and no entry at all when there is no such pair.
C2_OneInstancePerPair ==
    \A s \in ScannedSents :
       LET P == SharedVerbPairs(s)
       IN  IF P = {} THEN ~DictHas(return_items, s)
           ELSE /\ DictHas(return_items, s)
                /\ Len(DictGet(return_items, s)) = Cardinality(P)
                /\ \A p \in P : \E j \in DOMAIN DictGet(return_items, s) :
                      DictGet(return_items, s)[j] =
                         <<doc.text[p[1]], doc.text[p[2]], GoverningVerb(p[1])>>

\* find_sentence has returned for a sentence with a topic word and a
\* forward word whose governing verbs are two tokens with the same text, and
\* with another pair that does share its verb.
C2_Witness ==
    /\ "found_sentences" \in defined
    /\ \E e, f \in Tokens(doc) :
          /\ doc.sent[e] = doc.sent[f]
          /\ IsTopicWord(e) /\ IsForwardWord(f)
          /\ HasGoverningVerb(e) /\ HasGoverningVerb(f)
          /\ GoverningVerb(e) # GoverningVerb(f)
          /\ doc.text[GoverningVerb(e)] = doc.text[GoverningVerb(f)]
          /\ SharedVerbPairs(doc.sent[e]) # {}

\* ------------------------------------------------------------------ C4
\* C4: whenever get_verb has returned, the returned token is tagged VERB
\* and its dependency label is not aux.
C4_ReturnsNonAuxVerb ==
    gv_ret # NoToken => (doc.pos[gv_ret] = "VERB" /\ doc.dep[gv_ret] # "aux")

\* get_verb has returned for a start token that is an auxiliary verb.
C4_Witness ==
    /\ gv_ret # NoToken
    /\ doc.pos[gv_w] = "VERB" /\ doc.dep[gv_w] = "aux"

\* ------------------------------------------------------------------ C6
\* Some token labelled nsubj has v as its head.
HasSubject(v) == \E t \in Tokens(doc) : doc.dep[t] = "nsubj" /\ doc.head[t] = v

\* C6: the speaker lookup reports the instances in order and only while
\* their verbs have a subject; at the first instance whose verb is the head
\* of no nsubj token it stops with KeyError, having reported exactly the
\* instances before it, and it completes only if every verb has a subject.
C6_LookupKeyError ==
    pc \in {"lookup", "KeyError", "done"} =>
       LET F == Flatten(return_items)
       IN  /\ Len(printed) = (IF pc = "done" THEN Len(F) ELSE lk_i - 1)
           /\ \A k \in 1..Len(printed) :
                 /\ HasSubject(F[k][3])
                 /\ printed[k][3] = F[k][3]
                 /\ doc.dep[printed[k][4]] = "nsubj"
                 /\ doc.head[printed[k][4]] = F[k][3]
           /\ pc = "KeyError" => (lk_i <= Len(F) /\ ~HasSubject(F[lk_i][3]))

\* The lookup has failed with instances still to come.
C6_Witness ==
    /\ pc = "KeyError"
    /\ lk_i < Len(Flatten(return_items))

\* ------------------------------------------------------------------ C7
\* The nsubj tokens with head h.
SubjectsOf(h) == {t \in Tokens(doc) : doc.dep[t] = "nsubj" /\ doc.head[t] = h}

\* C7: the map get_subjMap returns has an entry for h exactly when some
\* nsubj token has head h, and maps h to the last such token of the
\* document; every recorded pair (h, s) has s.dep = nsubj and s.head = h.
C7_SubjMapLastSubject ==
    "subj_map" \in defined =>
       /\ DictKeys(subj_map) = {h \in Tokens(doc) : SubjectsOf(h) # {}}
       /\ \A i \in DOMAIN subj_map :
             /\ subj_map[i].val \in SubjectsOf(subj_map[i].key)
             /\ \A t \in SubjectsOf(subj_map[i].key) : t <= subj_map[i].val

\* get_subjMap has returned for a document in which two nsubj tokens share
\* a head.
C7_Witness ==
    /\ "subj_map" \in defined
    /\ \E h \in Tokens(doc) : Cardinality(SubjectsOf(h)) >= 2

\* ------------------------------------------------------------------ C8
\* C8: every key of the verb-subject map is a token tagged VERB.
C8_KeysAreVerbs ==
    \A i \in DOMAIN subj_map : doc.pos[subj_map[i].key] = "VERB"

\* ------------------------------------------------------------------ C9
\* C9: at every point of the scan and in the result, no two items of the
\* map have the same head token as key.
C9_OneSubjectPerHead ==
    \A i, j \in DOMAIN subj_map : subj_map[i].key = subj_map[j].key => i = j

\* The scan has passed two nsubj tokens that share a head.
C9_Witness ==
    /\ pc = "get_subjMap"
    /\ \E a, b \in 1..(sm_i - 1) :
          /\ a < b
          /\ doc.dep[DocOrder(doc)[a]] = "nsubj"
          /\ doc.dep[DocOrder(doc)[b]] = "nsubj"
          /\ doc.head[DocOrder(doc)[a]] = doc.head[DocOrder(doc)[b]]

\* ------------------------------------------------------------------ C3
\* C3: a call of get_verb on a token whose head chain has no non-auxiliary
\* verb, the root included, eventually returns the root of its sentence.
C3_ReturnsRootWithoutVerb ==
    [](  (pc = "get_verb" /\ ~HasGoverningVerb(gv_w))
      => <>(pc = "idle" /\ gv_w # NoToken /\ gv_ret = Root(doc, gv_w)) )

\* ------------------------------------------------------------------ C5
\* C5: a call of get_verb on a token whose head chain, the token included,
\* has a non-auxiliary verb eventually returns, and what get_verb returns
\* is the first such verb on the chain: the token itself when it is one,
\* the verb an auxiliary modifies for an auxiliary.
C5_ReturnsFirstVerbOnChain ==
    /\ [](gv_ret # NoToken => gv_ret = GoverningVerb(gv_w))
    /\ [](  (pc = "get_verb" /\ HasGoverningVerb(gv_w))
         => <>(pc = "idle" /\ gv_w # NoToken /\ gv_ret = GoverningVerb(gv_w)) )

\* get_verb has returned the verb above the auxiliary 'will', and that verb
\* is its own governing verb.
C5_Witness ==
    /\ gv_ret # NoToken
    /\ doc.text[gv_w] = "will" /\ doc.pos[gv_w] = "VERB" /\ doc.dep[gv_w] = "aux"
    /\ gv_ret = doc.head[gv_w]
    /\ GoverningVerb(gv_ret) = gv_ret

\* ----------------------------------------------------------------- C10
\* seq holds exactly the tokens among toks whose text is in entries, each
\* once and in token order.
IsExactMatch(seq, toks, entries) ==
    /\ \A k \in DOMAIN seq : seq[k] \in toks /\ doc.text[seq[k]] \in entries
    /\ \A w \in toks : doc.text[w] \in entries => \E k \in DOMAIN seq : seq[k] = w
    /\ \A j, k \in DOMAIN seq : j < k => seq[j] < seq[k]

\* C10: the lexicon match returns exactly the tokens whose text equals,
\* case-sensitively and as a whole string, an entry of the word list, each
\* once and in token order; texts that contain an entry, are contained in
\* one or differ in case are not returned.  This holds of e_words and
\* f_words and of ep_words and fp_words of every sentence.
C10_ExactTextMatch ==
    LET E == {"earnings", "profitability", "dollars per share"}
        F == {"forecasted", "estimated", "will", "expected"}
    IN  /\ "e_words" \in defined =>
              /\ IsExactMatch(e_words, Tokens(doc), E)
              /\ \A k \in DOMAIN e_words :
                    doc.text[e_words[k]] \notin {"Earnings", "earning", "dollars"}
        /\ "f_words" \in defined =>
              /\ IsExactMatch(f_words, Tokens(doc), F)
              /\ \A k \in DOMAIN f_words :
                    doc.text[f_words[k]] \notin {"Will", "willing"}
        /\ \A s \in 1..NumSents(doc) :
              LET in_s == {w \in Tokens(doc) : doc.sent[w] = s}
              IN  /\ IsExactMatch(ep_words(doc, s), in_s, E)
                  /\ IsExactMatch(fp_words(doc, s), in_s, F)

\* Both lists have been matched against a document that holds an entry
\* twice, with a text that is part of an entry between the two.
C10_Witness ==
    /\ defined = {"e_words", "f_words"}
    /\ Len(e_words) = 2
    /\ \E w \in Tokens(doc) :
          /\ e_words[1] < w /\ w < e_words[2]
          /\ doc.text[w] \in {"earning", "dollars"}

\* ----------------------------------------------------------------- C11
\* C11: for "XYZ announced that earnings will increase this year." parsed
\* as the notebook prints it, find_sentence returns exactly one instance,
\* filed under the one sentence: ("earnings", "will", v) with v the token
\* "increase", the governing verb of both words.
C11_ExampleSentenceOneInstance ==
    (doc = SentDoc /\ "found_sentences" \in defined) =>
        /\ Len(return_items) = 1
        /\ return_items[1].key = 1
        /\ Len(return_items[1].val) = 1
        /\ return_items[1].val[1][1] = "earnings"
        /\ return_items[1].val[1][2] = "will"
        /\ doc.text[return_items[1].val[1][3]] = "increase"
        /\ GetVerb(doc, 4) = return_items[1].val[1][3]
        /\ GetVerb(doc, 5) = return_items[1].val[1][3]

\* find_sentence has returned for the example sentence.
C11_Witness ==
    /\ doc = SentDoc
    /\ "found_sentences" \in defined
    /\ return_items # <<>>

\* ----------------------------------------------------------------- C12
\* C12: for bad_sent parsed with "earnings" the subject of "fallen" and
\* "will" an auxiliary of "manage", the two words have different governing
\* verbs and find_sentence returns no instance at all.
C12_BadSentenceNoInstance ==
    (/\ doc.n = 24
     /\ doc.text[5] = "earnings" /\ doc.dep[5] = "nsubj" /\ doc.head[5] = 7
     /\ doc.text[7] = "fallen"
     /\ doc.text[20] = "will" /\ doc.dep[20] = "aux" /\ doc.head[20] = 21
     /\ doc.text[21] = "manage"
     /\ pc # "idle" \/ "found_sentences" \in defined)
    => /\ GetVerb(doc, 5) = 7
       /\ GetVerb(doc, 20) = 21
       /\ return_items = <<>>

\* find_sentence has returned for a parse of bad_sent.
C12_Witness ==
    /\ doc \in BadSentDocs
    /\ doc.head[7] = 2
    /\ "found_sentences" \in defined
    /\ pc = "idle"

\* ----------------------------------------------------------------- C13
RECURSIVE SubjectsFrom(_, _, _)
\* The dict a scan of the tokens toks of d builds on top of m.
SubjectsFrom(d, m, toks) ==
    IF toks = <<>> THEN m
    ELSE SubjectsFrom(d,
                      IF d.dep[Head(toks)] = "nsubj"
                      THEN DictUpdate(m, d.head[Head(toks)], Head(toks))
                      ELSE m,
                      Tail(toks))

RECURSIVE InstancesFrom(_, _, _)
\* The dict the sentences s, s + 1, ... of d add to items.
InstancesFrom(d, items, s) ==
    IF s > NumSents(d) THEN items
    ELSE InstancesFrom(d,
                       OuterLoop(d, items, s, ep_words(d, s), fp_words(d, s)),
                       s + 1)

\* C13: what get_subjMap and find_sentence return is a function of the
\* document they were called on alone: it is the dict a scan of that
\* document builds from the empty dict, whatever texts were processed and
\* whatever calls were made before (so two calls on one document return
\* equal dicts), and it holds only tokens and sentences of that document.
C13_ResultsDependOnDocOnly ==
    /\ "subj_map" \in defined =>
          /\ subj_map = SubjectsFrom(sm_doc, <<>>, DocOrder(sm_doc))
          /\ \A i \in DOMAIN subj_map :
                /\ subj_map[i].key \in Tokens(sm_doc)
                /\ subj_map[i].val \in Tokens(sm_doc)
    /\ "found_sentences" \in defined =>
          /\ return_items = InstancesFrom(fs_doc, <<>>, 1)
          /\ \A i \in DOMAIN return_items :
                /\ return_items[i].key \in 1..NumSents(fs_doc)
                /\ \A j \in DOMAIN return_items[i].val :
                      return_items[i].val[j][3] \in Tokens(fs_doc)

\* find_sentence has returned a non-empty result for the example sentence,
\* parsed after the paragraph, for which get_subjMap had returned.
C13_Witness ==
    /\ {"subj_map", "found_sentences"} \subseteq defined
    /\ sm_doc = ParaDoc /\ fs_doc = SentDoc /\ doc = SentDoc
    /\ pc = "idle"
    /\ return_items # <<>>
    /\ subj_map # <<>>

\* ----------------------------------------------------------------- C14
\* C14: the dict of find_sentence maps a sentence to a non-empty list of
\* triples (text of a topic word, text of a forward word, verb token), the
\* two words being tokens of that sentence; no sentence is mapped to an
\* empty list, a scanned sentence without a pair being absent.  For the
\* four-sentence paragraph the dict has one key, the last sentence, with
\* the single instance ("earnings", "expected", v), v the token "expected".
C14_NonEmptyListsOfTriples ==
    /\ \A i \in DOMAIN return_items :
          /\ return_items[i].key \in 1..NumSents(doc)
          /\ Len(return_items[i].val) >= 1
          /\ \A j \in DOMAIN return_items[i].val :
                LET inst == return_items[i].val[j]
                IN  /\ Len(inst) = 3
                    /\ \E e, f \in Tokens(doc) :
                          /\ doc.sent[e] = return_items[i].key
                          /\ doc.sent[f] = return_items[i].key
                          /\ IsTopicWord(e) /\ inst[1] = doc.text[e]
                          /\ IsForwardWord(f) /\ inst[2] = doc.text[f]
                    /\ inst[3] \in Tokens(doc)
    /\ \A s \in ScannedSents :
          SharedVerbPairs(s) = {} => ~DictHas(return_items, s)
    /\ (doc = ParaDoc /\ "found_sentences" \in defined) =>
          /\ Len(return_items) = 1
          /\ return_items[1].key = 4
          /\ NumSents(doc) = 4
          /\ return_items[1].val = << <<"earnings", "expected", 40>> >>
          /\ doc.text[40] = "expected"

\* find_sentence has returned for the paragraph: its third sentence holds
\* a topic word and has no entry, its fourth has one.
C14_Witness ==
    /\ doc = ParaDoc
    /\ "found_sentences" \in defined
    /\ IsTopicWord(33) /\ doc.sent[33] = 3
    /\ ~DictHas(return_items, 3)
    /\ DictHas(return_items, 4)

\* ------------------------------------------- vocabulary of the panel claims
\* The observations of the industry-quarter of observation k.
IndustryQuarter(k) ==
    {m \in DOMAIN data : data[m].j = data[k].j /\ data[m].t = data[k].t}

\* The commands of the endogenous cell that run after carryforward.
AfterCarryforward ==
    {"gen x", "gen pr", "gen tau endo", "replace tau 0", "replace tau 1",
     "egen rho endo", "gen y endo", "end"}

\* The commands that run once the panel is built.
AfterPanel ==
    {"gen tau", "egen rho", "gen y", "keep", "gen _first", "gen w", "sort",
     "carryforward"} \cup AfterCarryforward

\* ----------------------------------------------------------------- C15
\* C15: once carryforward has run, w is not missing in any observation and
\* is the same in all observations of one industry-quarter, whatever order
\* the sort of "bys j t" left the observations in when _first was assigned.
C15_WFilledInEveryObservation ==
    spc \in AfterCarryforward =>
        \A k \in DOMAIN data :
            /\ ~mi(data[k].w)
            /\ \A m \in IndustryQuarter(k) : data[m].w = data[k].w

\* ----------------------------------------------------------------- C16
\* C16: the panel has nInd * nFirms * nQuarters observations (40*50*40 =
\* 80,000 in the notebook); the firm ids of industry j are exactly
\* j*100 + k for k = 1..nFirms, no firm id occurs in two industries, and
\* every firm has exactly one observation for each t = 1..nQuarters.
C16_PanelShape ==
    spc \in AfterPanel =>
        /\ Len(data) = dims.nInd * dims.nFirms * dims.nQuarters
        /\ \A jj \in 1..dims.nInd :
              {data[k].i : k \in {m \in DOMAIN data : data[m].j = jj}}
                 = {jj * 100 + k : k \in 1..dims.nFirms}
        /\ \A k \in DOMAIN data : data[k].j \in 1..dims.nInd
        /\ \A k, m \in DOMAIN data :
              data[k].i = data[m].i => data[k].j = data[m].j
        /\ \A k \in DOMAIN data : \A tt \in 1..dims.nQuarters :
              Cardinality({m \in DOMAIN data :
                              data[m].i = data[k].i /\ data[m].t = tt}) = 1
        /\ \A k \in DOMAIN data : data[k].t \in 1..dims.nQuarters

\* The panel of two industries, two firms each and two quarters is built.
C16_Witness ==
    /\ spc = "gen tau"
    /\ dims = [nInd |-> 2, nFirms |-> 2, nQuarters |-> 2]
    /\ Len(data) = 8

\* ----------------------------------------------------------------- C17
\* C17: rho of an observation is the number of firms of its industry with
\* tau = 1 in its quarter divided by the number of firms of the industry
\* in that quarter, the firm itself counted in both; it is the same for
\* all firms of an industry-quarter and lies in [0, 1].
C17_RhoIsTreatedShare ==
    "rho" \in cols =>
        \A k \in DOMAIN data :
            LET treated == {m \in IndustryQuarter(k) : data[m].tau = 1}
            IN  /\ k \in IndustryQuarter(k)
                /\ Cardinality(IndustryQuarter(k)) = dims.nFirms
                /\ data[k].rho * Cardinality(IndustryQuarter(k))
                      = RhoScale * Cardinality(treated)
                /\ \A m \in IndustryQuarter(k) : data[m].rho = data[k].rho
                /\ 0 <= data[k].rho /\ data[k].rho <= RhoScale

\* rho of the endogenous cell is computed, and in some industry-quarter
\* one firm is treated and one is not.
C17_Witness ==
    /\ spc = "gen y endo"
    /\ "rho" \in cols
    /\ \E k \in DOMAIN data :
          /\ data[k].tau = 1
          /\ 0 < data[k].rho /\ data[k].rho < RhoScale

\* ----------------------------------------------------------------- C20
\* C20: the two replace commands set tau to 1 only where pr is not missing
\* and at least .5; rbinomial returns missing for a missing pr, so after
\* them no observation whose pr is missing has tau = 1.
C20_MissingPrNotTreated ==
    spc = "egen rho endo" =>
        \A k \in DOMAIN data : mi(data[k].pr) => data[k].tau # 1

\* ----------------------------------------------------------------- C18
\* The smallest and the largest phat among the observations with tau = v.
PhatMin(v) ==
    LET S == {data[k].phat : k \in {m \in DOMAIN data :
                                      data[m].tau = v /\ ~mi(data[m].phat)}}
    IN  CHOOSE p \in S : \A q \in S : p <= q

PhatMax(v) ==
    LET S == {data[k].phat : k \in {m \in DOMAIN data :
                                      data[m].tau = v /\ ~mi(data[m].phat)}}
    IN  CHOOSE p \in S : \A q \in S : p >= q

\* phat of observation k lies in the common support
\* [max(min0, min1), min(max0, max1)].
InCommonSupport(k) ==
    /\ ~mi(data[k].phat)
    /\ data[k].phat >= (IF PhatMin(0) > PhatMin(1) THEN PhatMin(0)
                        ELSE PhatMin(1))
    /\ data[k].phat <= (IF PhatMax(0) < PhatMax(1) THEN PhatMax(0)
                        ELSE PhatMax(1))

\* C18: after the overlap step an observation has a non-missing wt only if
\* its phat lies in the common support; every observation whose phat lies
\* outside it (or is missing) has wt missing, and the weight of an
\* observation inside it is the one gen wt gave it.
C18_OverlapKeepsCommonSupport ==
    spc \in {"loop init", "foreach", "end"} =>
        \A k \in DOMAIN data :
            /\ ~mi(data[k].wt) => InCommonSupport(k)
            /\ ~InCommonSupport(k) => mi(data[k].wt)
            /\ InCommonSupport(k) =>
                  /\ data[k].tau = 1 =>
                        data[k].wt * data[k].phat = 10 * 1000
                  /\ data[k].tau = 0 =>
                        data[k].wt * (10 - data[k].phat) = 10 * 1000

\* The overlap step has run on data in which one observation lies inside
\* the common support and keeps its weight and another, with a phat,
\* lies outside and has lost it.
C18_Witness ==
    /\ spc = "loop init"
    /\ \E k, m \in DOMAIN data :
          /\ InCommonSupport(k) /\ ~mi(data[k].wt)
          /\ ~mi(data[m].phat) /\ ~InCommonSupport(m) /\ mi(data[m].wt)

\* ----------------------------------------------------------------- C19
\* C19: every regression the within-group loop has run has y as dependent
\* variable, tau and x as regressors and wt as weight.
C19_RegressionIncludesX ==
    (spc \in {"foreach", "end"} /\ e_res.cmd = "regress") =>
        /\ e_res.depvar = "y"
        /\ e_res.weight = "wt"
        /\ \E n \in DOMAIN e_res.indepvars : e_res.indepvars[n] = "tau"
        /\ \E n \in DOMAIN e_res.indepvars : e_res.indepvars[n] = "x"

\* ----------------------------------------------------------------- C21
\* The helper variables of the loop body.
LoopHelpers == {"tau_orig", "y1tmp", "y0tmp"}

\* Between iterations and after the loop: no helper variable exists, and the
\* observations of every group already visited whose regression failed have
\* y1 and y0 missing.
LoopRestState ==
    spc \in {"foreach", "end"} =>
        /\ cols \cap LoopHelpers = {}
        /\ \A k \in DOMAIN data :
              (data[k].grp < loop_g /\ RegFails(data, data[k].grp)) =>
                  (mi(data[k].y1) /\ mi(data[k].y0))

\* One iteration (or the exit of the loop) leaves tau of every observation as
\* it was; an iteration whose regression fails changes nothing in the data.
LoopIterationFrame ==
    spc = "foreach" =>
        /\ DOMAIN data' = DOMAIN data
        /\ \A k \in DOMAIN data : data'[k].tau = data[k].tau
        /\ cols' \cap LoopHelpers = {}
        /\ (loop_g \in macros["glevels"] /\ RegFails(data, loop_g)) =>
              (data' = data /\ cols' = cols /\ loop_g' = loop_g + 1)

\* C21: every iteration of the within-group loop, and so the whole loop,
\* leaves tau of every observation at its value before the loop; after an
\* iteration tau_orig, y1tmp and y0tmp do not exist; an iteration whose
\* weighted regression fails is skipped without touching tau, and y1 and y0
\* stay missing for the observations of that group.
C21_LoopLeavesTauUnchanged ==
    [](LoopRestState) /\ [][LoopIterationFrame]_vars

\* The loop is over; one group was skipped and one was fitted on a treated
\* and an untreated observation, whose tau had to be overwritten and restored.
C21_Witness ==
    /\ spc = "end"
    /\ \E k \in DOMAIN data :
          RegFails(data, data[k].grp) /\ mi(data[k].y1) /\ mi(data[k].y0)
    /\ \E k, m \in DOMAIN data :
          /\ data[k].grp = data[m].grp
          /\ ~RegFails(data, data[k].grp)
          /\ data[k].tau = 1 /\ data[m].tau = 0
          /\ ~mi(data[k].y1) /\ ~mi(data[m].y0)
          /\ data[k].y1 # data[k].y0

\* ----------------------------------------------------------------- C22
\* The topic words of the document, in order.
TopicWords == LexMatch(doc, AllTokens(doc), earnings_words)

\* The head of the governing verb of the topic word e.
VerbHeadOf(e) == doc.head[GetVerb(doc, e)]

\* C22: in the walkthrough the speaker printed for a topic word is the
\* subject the map records for the head of the word's governing verb; for
\* the example sentence the loop prints (earnings, XYZ), XYZ being the
\* subject of "announced"; the loop stops with KeyError exactly at a topic
\* word whose governing verb's head has no subject on record.
C22_SpeakerIsSubjectOfVerbHead ==
    (pc \in {"walk", "done", "KeyError"} /\ wk_i > 0) =>
        /\ Len(wk_printed) = wk_i - 1
        /\ wk_i - 1 <= Len(TopicWords)
        /\ \A n \in DOMAIN wk_printed :
              LET e    == wk_printed[n][1]
                  subj == wk_printed[n][2]
              IN  /\ e = TopicWords[n]
                  /\ DictHas(subj_map, VerbHeadOf(e))
                  /\ subj = DictGet(subj_map, VerbHeadOf(e))
                  /\ doc.dep[subj] = "nsubj"
                  /\ doc.head[subj] = VerbHeadOf(e)
        /\ pc = "done" => Len(wk_printed) = Len(TopicWords)
        /\ pc = "KeyError" =>
              /\ wk_i <= Len(TopicWords)
              /\ ~HasSubject(VerbHeadOf(TopicWords[wk_i]))
        /\ (pc = "walk" /\ wk_i <= Len(TopicWords)
                        /\ ~HasSubject(VerbHeadOf(TopicWords[wk_i]))) =>
              ENABLED WalkKeyError /\ ~ENABLED WalkStep
        /\ doc = SentDoc =>
              /\ pc # "KeyError"
              /\ pc = "done" =>
                    /\ Len(wk_printed) = 1
                    /\ doc.text[wk_printed[1][1]] = "earnings"
                    /\ doc.text[wk_printed[1][2]] = "XYZ"
                    /\ doc.text[doc.head[wk_printed[1][2]]] = "announced"

\* The walkthrough of the example sentence has printed its pair; the verb
\* of "earnings" has a subject of its own, and it is not the one printed.
C22_Witness ==
    /\ doc = SentDoc
    /\ pc = "done"
    /\ wk_i = 2
    /\ Len(wk_printed) = 1
    /\ DictHas(subj_map, GetVerb(doc, wk_printed[1][1]))
    /\ wk_printed[1][2] # DictGet(subj_map, GetVerb(doc, wk_printed[1][1]))

====
